---- MODULE Spec2Model ----
(***************************************************************************)
(* Track-metadata reconciliation of bindrap/music-downloader.              *)
(*                                                                         *)
(* Two variants of the program are modelled side by side:                  *)
(*   "app"     : src/app.py     (clean_track_titles_and_set_albumartist)   *)
(*   "app_new" : src/app_new.py (clean_title, fix_track_metadata)          *)
(*                                                                         *)
(* A string is a sequence of chunks.  A chunk is one character ("s", "1",  *)
(* " ", "(", ...) or one of a few whole words ("feat", "Explicit", "mp3",  *)
(* ...) whose letters are not single-character chunks, so that a string    *)
(* has exactly one chunk decomposition and equality of chunk sequences is  *)
(* equality of the strings.                                                *)
(***************************************************************************)
EXTENDS Integers, Sequences, FiniteSets, TLC

(***************************************************************************)
(* Characters and character classes of Python's re / str                   *)
(***************************************************************************)
NL == "\n"

Letters == {"s", "S", "n", "N"}
Digits == {"1", "2"}
Spaces == {" ", NL}
FeatWords == {"feat", "FEAT"}
ExplicitWords == {"Explicit", "EXPLICIT"}
LowerWords == {"explicit"}
ExtWords == {"mp3", "MP3", "flac", "txt"}
Puncts == {"(", ")", "[", "]", "-", ".", "!"}
Underscore == "_"

Chunk == Letters \cup Digits \cup Spaces \cup FeatWords \cup ExplicitWords
         \cup LowerWords \cup ExtWords \cup Puncts \cup {Underscore}

\* \d
IsDigit(c) == c \in Digits

\* \s, and the characters str.strip() and str.split() treat as blank
IsSpace(c) == c \in Spaces

\* \w of a str pattern: letters, digits and the underscore
IsWordChar(c) == c \in Letters \cup Digits \cup FeatWords \cup ExplicitWords
                       \cup LowerWords \cup ExtWords \cup {Underscore}

\* c is made of letters and digits only (what the spec calls alphanumeric)
IsAlnum(c) == IsWordChar(c) /\ c # Underscore

\* str.lower(), chunk by chunk
LowerChunk(c) ==
  CASE c = "S" -> "s"
    [] c = "N" -> "n"
    [] c = "FEAT" -> "feat"
    [] c \in ExplicitWords -> "explicit"
    [] c = "MP3" -> "mp3"
    [] OTHER -> c

Lower(s) == [i \in 1..Len(s) |-> LowerChunk(s[i])]

\* the code points of a chunk's characters (the order sorted() compares by)
Codes(c) ==
  CASE c = "s" -> <<115>>
    [] c = "S" -> <<83>>
    [] c = "n" -> <<110>>
    [] c = "N" -> <<78>>
    [] c = "1" -> <<49>>
    [] c = "2" -> <<50>>
    [] c = " " -> <<32>>
    [] c = NL -> <<10>>
    [] c = "(" -> <<40>>
    [] c = ")" -> <<41>>
    [] c = "[" -> <<91>>
    [] c = "]" -> <<93>>
    [] c = "-" -> <<45>>
    [] c = "." -> <<46>>
    [] c = "!" -> <<33>>
    [] c = "_" -> <<95>>
    [] c = "feat" -> <<102, 101, 97, 116>>
    [] c = "FEAT" -> <<70, 69, 65, 84>>
    [] c = "Explicit" -> <<69, 120, 112, 108, 105, 99, 105, 116>>
    [] c = "EXPLICIT" -> <<69, 88, 80, 76, 73, 67, 73, 84>>
    [] c = "explicit" -> <<101, 120, 112, 108, 105, 99, 105, 116>>
    [] c = "mp3" -> <<109, 112, 51>>
    [] c = "MP3" -> <<77, 80, 51>>
    [] c = "flac" -> <<102, 108, 97, 99>>
    [] c = "txt" -> <<116, 120, 116>>

Min(S) == CHOOSE x \in S : \A y \in S : x <= y
Max(S) == CHOOSE x \in S : \A y \in S : x >= y

\* s[i..] of Python: the chunks of s from index i (1-based) on
DropTo(s, i) == SubSeq(s, i, Len(s))

(***************************************************************************)
(* re.sub(pattern, "", s) for the patterns the program uses.               *)
(*                                                                         *)
(* A pattern is  [\s*] lit [.*? close]  : an optional greedy run of blanks,*)
(* a literal (a sequence of sets of chunks; a set with the two cases of a  *)
(* word is that word under re.IGNORECASE), and an optional lazy run up to  *)
(* the first closing chunk.  "." does not match a newline (no re.DOTALL);  *)
(* [^)]* does.                                                             *)
(***************************************************************************)

\* the index after the greedy run of blanks that starts at i
SkipSpace(s, i) ==
  CHOOSE k \in i..(Len(s) + 1) :
    /\ \A j \in i..(k - 1) : IsSpace(s[j])
    /\ (k = Len(s) + 1 \/ ~IsSpace(s[k]))

\* the index after the greedy run of digits that starts at i
SkipDigits(s, i) ==
  CHOOSE k \in i..(Len(s) + 1) :
    /\ \A j \in i..(k - 1) : IsDigit(s[j])
    /\ (k = Len(s) + 1 \/ ~IsDigit(s[k]))

\* the literal lit matches s at index k
MatchLit(s, k, lit) ==
  /\ k + Len(lit) - 1 <= Len(s)
  /\ \A i \in 1..Len(lit) : s[k + i - 1] \in lit[i]

\* the index of the first chunk `close` at or after p that a lazy run can
\* reach (0 if none): without dotall the run cannot cross a newline
FirstClose(s, p, close, dotall) ==
  LET cand == {j \in p..Len(s) :
                 /\ s[j] = close
                 /\ (dotall \/ \A k \in p..(j - 1) : s[k] # NL)}
  IN  IF cand = {} THEN 0 ELSE Min(cand)

\* the index of the last chunk of the match whose literal starts at k (0 if
\* the pattern does not match there); close = "" for a pattern without a run
MatchEnd(s, k, lit, close, dotall) ==
  IF ~MatchLit(s, k, lit) THEN 0
  ELSE IF close = "" THEN k + Len(lit) - 1
  ELSE FirstClose(s, k + Len(lit), close, dotall)

RECURSIVE SubFrom(_, _, _, _, _, _)
\* re.sub scanning s from index i: every leftmost non-overlapping match is
\* deleted; lead = the pattern starts with \s*
SubFrom(s, i, lead, lit, close, dotall) ==
  IF i > Len(s) THEN <<>>
  ELSE LET k == IF lead THEN SkipSpace(s, i) ELSE i
           e == MatchEnd(s, k, lit, close, dotall)
       IN  IF e # 0
           THEN SubFrom(s, e + 1, lead, lit, close, dotall)
           ELSE <<s[i]>> \o SubFrom(s, i + 1, lead, lit, close, dotall)

ReSub(s, lead, lit, close, dotall) == SubFrom(s, 1, lead, lit, close, dotall)

\* str.strip()
Strip(s) ==
  LET keep == {i \in 1..Len(s) : ~IsSpace(s[i])}
  IN  IF keep = {} THEN <<>> ELSE SubSeq(s, Min(keep), Max(keep))

(***************************************************************************)
(* The program's pure functions                                            *)
(***************************************************************************)

\* the chunks a word matches under re.IGNORECASE
CaseClass(w) == {c \in Chunk : LowerChunk(c) = LowerChunk(w)}

\* normalize_title: re.sub(r'\W+', '', title).lower()
normalize_title(title) == Lower(SelectSeq(title, IsWordChar))

\* re.sub(r"^\d+\s+", "", title)
RemovePrefixApp(title) ==
  LET d == SkipDigits(title, 1)
      w == SkipSpace(title, d)
  IN  IF d > 1 /\ w > d THEN DropTo(title, w) ELSE title

\* re.sub(r"^\d+\s*[-.]?\s*", "", title)
RemovePrefixNew(title) ==
  LET d == SkipDigits(title, 1)
      w == SkipSpace(title, d)
      e == IF w <= Len(title) /\ title[w] \in {"-", "."}
           THEN SkipSpace(title, w + 1) ELSE w
  IN  IF d > 1 THEN DropTo(title, e) ELSE title

\* the literals of the patterns
LitFeatApp == <<{"("}, CaseClass("feat"), {"."}, {" "}>>
LitFeatNew == <<{"("}, CaseClass("feat"), {"."}>>
LitExplicitParen == <<{"("}, CaseClass("Explicit"), {")"}>>
LitExplicitBracket == <<{"["}, CaseClass("Explicit"), {"]"}>>
LitBracket == <<{"["}>>
LitParen == <<{"("}>>

\* clean_title of app_new.py
clean_title(title) ==
  LET c1 == RemovePrefixNew(title)
      c2 == ReSub(c1, TRUE, LitFeatNew, ")", FALSE)
      c3 == ReSub(c2, TRUE, LitExplicitParen, "", FALSE)
      c4 == ReSub(c3, TRUE, LitExplicitBracket, "", FALSE)
      c5 == ReSub(c4, TRUE, LitBracket, "]", FALSE)
  IN  Strip(c5)

\* the cleaning app.py applies to a file's title (lines 159-163)
CleanFileTitleApp(title) ==
  LET c1 == RemovePrefixApp(title)
      c2 == ReSub(c1, FALSE, LitFeatApp, ")", FALSE)
      c3 == ReSub(c2, FALSE, LitExplicitParen, "", FALSE)
      c4 == ReSub(c3, FALSE, LitExplicitBracket, "", FALSE)
      c5 == ReSub(c4, FALSE, LitBracket, "]", FALSE)
  IN  Strip(c5)

\* the cleaning app.py applies to an authoritative title (lines 124-127)
CleanIndexTitleApp(raw_title) ==
  LET c1 == ReSub(raw_title, FALSE, LitFeatApp, ")", FALSE)
      c2 == ReSub(c1, FALSE, LitExplicitParen, "", FALSE)
      c3 == ReSub(c2, FALSE, LitExplicitBracket, "", FALSE)
  IN  Strip(c3)

\* re.sub(r'\([^)]*\)', '', raw_title).strip() of app_new.py
NoParens(raw_title) == Strip(ReSub(raw_title, FALSE, LitParen, ")", TRUE))

Variants == {"app", "app_new"}

\* the Title Cleaner a variant applies to the title of a file
CleanFile(v, title) ==
  IF v = "app" THEN CleanFileTitleApp(title) ELSE clean_title(title)

(***************************************************************************)
(* File names, sorting, tags                                               *)
(***************************************************************************)

RECURSIVE FlatCodes(_)
\* the code points of a string
FlatCodes(s) == IF s = <<>> THEN <<>> ELSE Codes(Head(s)) \o FlatCodes(Tail(s))

\* a < b for two sequences of code points (Python's str comparison)
LexLess(a, b) ==
  \E i \in 1..(Len(a) + 1) :
    /\ \A j \in 1..(i - 1) : j <= Len(b) /\ a[j] = b[j]
    /\ \/ (i = Len(a) + 1 /\ Len(b) > Len(a))
       \/ (i <= Len(a) /\ i <= Len(b) /\ a[i] < b[i])

NameLess(f, g) == LexLess(FlatCodes(f), FlatCodes(g))

RECURSIVE SortedNames(_)
\* sorted(...) of a set of distinct file names
SortedNames(S) ==
  IF S = {} THEN <<>>
  ELSE LET m == CHOOSE f \in S : \A g \in S \ {f} : NameLess(f, g)
       IN  <<m>> \o SortedNames(S \ {m})

\* the set of the elements of a sequence
Range(q) == {q[i] : i \in 1..Len(q)}

\* str.endswith
EndsWith(s, suf) ==
  /\ Len(s) >= Len(suf)
  /\ SubSeq(s, Len(s) - Len(suf) + 1, Len(s)) = suf

\* file.lower().endswith(".mp3") / (".flac") / ((".mp3", ".flac"))
IsMp3(file) == EndsWith(Lower(file), <<".", "mp3">>)
IsFlac(file) == EndsWith(Lower(file), <<".", "flac">>)
IsAudio(file) == IsMp3(file) \/ IsFlac(file)

\* os.path.splitext(file)[0]: the name up to its last dot, when that dot
\* follows a character that is not a dot
SplitExtBase(file) ==
  LET dots == {i \in 1..Len(file) : file[i] = "."}
      d == Max(dots)
  IN  IF dots # {} /\ (\E k \in 1..(d - 1) : file[k] # ".")
      THEN SubSeq(file, 1, d - 1) ELSE file

\* A tag is the list mutagen holds for it: <<>> when the tag is absent,
\* <<v>> when it is set.
NoTag == <<>>
Tags(title, tracknumber, albumartist) ==
  [title |-> title, tracknumber |-> tracknumber, albumartist |-> albumartist]

\* audio.get("title", [os.path.splitext(file)[0]])[0]
RawTitle(file, tags) ==
  IF tags.title # NoTag THEN tags.title[1] ELSE SplitExtBase(file)

(***************************************************************************)
(* The track index                                                         *)
(***************************************************************************)

\* Mutant of DictPut: a key that is already in the dict keeps its first
\* position (dict.setdefault instead of the assignment).
DictPutFirst(d, key, idx) ==
  [k \in (DOMAIN d) \cup {key} |-> IF k \in DOMAIN d THEN d[k] ELSE idx]

\* track_order[key] = idx on a dict given as a function
DictPut(d, key, idx) ==
  [k \in (DOMAIN d) \cup {key} |-> IF k = key THEN idx ELSE d[k]]

\* the insertion order of a dict's keys after d[key] = ...: a key that is
\* assigned again keeps its place
OrderPut(order, key) ==
  IF key \in Range(order) THEN order ELSE Append(order, key)

\* the keys the index builder derives from one authoritative title, in the
\* order it inserts them (app.py:129-130, app_new.py:213-218)
IndexKeys(v, raw_title) ==
  IF v = "app"
  THEN <<normalize_title(raw_title),
         normalize_title(CleanIndexTitleApp(raw_title))>>
  ELSE <<normalize_title(raw_title),
         normalize_title(clean_title(raw_title)),
         normalize_title(NoParens(raw_title))>>

RECURSIVE PutAll(_, _, _)
\* the dict after the keys of one entry are assigned idx, in order
PutAll(d, keys, idx) ==
  IF keys = <<>> THEN d
  ELSE PutAll(DictPut(d, Head(keys), idx), Tail(keys), idx)

RECURSIVE OrderAll(_, _)
OrderAll(order, keys) ==
  IF keys = <<>> THEN order
  ELSE OrderAll(OrderPut(order, Head(keys)), Tail(keys))

\* dict.get(key): <<>> for None
DictGet(d, key) == IF key \in DOMAIN d THEN <<d[key]>> ELSE <<>>

RECURSIVE FirstWords(_, _)
\* the characters of the first n words of s.split()
FirstWords(s, n) ==
  LET t == DropTo(s, SkipSpace(s, 1))
      ends == {i \in 1..Len(t) : IsSpace(t[i])}
      e == IF ends = {} THEN Len(t) + 1 ELSE Min(ends)
  IN  IF n = 0 \/ t = <<>> THEN <<>>
      ELSE SubSeq(t, 1, e - 1) \o FirstWords(DropTo(t, e), n - 1)

\* key.startswith(partial)
StartsWith(key, partial) ==
  /\ Len(key) >= Len(partial)
  /\ SubSeq(key, 1, Len(partial)) = partial

\* cleaned_title.split()[:3]
PartialWords == 3

\* the last-resort prefix matching of fix_track_metadata (app_new.py:262-270)
PartialMatch(d, order, cleaned_title) ==
  LET partial == normalize_title(FirstWords(cleaned_title, PartialWords))
      hits == {i \in 1..Len(order) : StartsWith(order[i], partial)}
  IN  IF FirstWords(cleaned_title, PartialWords) = <<>> \/ hits = {}
      THEN <<>>
      ELSE <<d[order[Min(hits)]]>>

\* Mutant of TrackNum: the original title's key is tried before the cleaned
\* title's key.
TrackNumRawFirst(v, d, order, title, cleaned_title) ==
  LET byCleaned == DictGet(d, normalize_title(cleaned_title))
      byOriginal == DictGet(d, normalize_title(title))
  IN  IF byOriginal # <<>> THEN byOriginal
      ELSE IF byCleaned # <<>> THEN byCleaned
      ELSE IF v = "app_new" THEN PartialMatch(d, order, cleaned_title)
      ELSE <<>>

\* the track number the matching finds for a file (<<>> if none)
\* app.py:167-169, app_new.py:251-270
TrackNum(v, d, order, title, cleaned_title) ==
  LET byCleaned == DictGet(d, normalize_title(cleaned_title))
      byOriginal == DictGet(d, normalize_title(title))
  IN  IF byCleaned # <<>> THEN byCleaned
      ELSE IF byOriginal # <<>> THEN byOriginal
      ELSE IF v = "app_new" THEN PartialMatch(d, order, cleaned_title)
      ELSE <<>>

RECURSIVE IndexOf(_, _, _)
\* track_order after the index loop went over the first n entries of ts
IndexOf(v, ts, n) ==
  IF n = 0 THEN <<>>
  ELSE PutAll(IndexOf(v, ts, n - 1), IndexKeys(v, ts[n]), n)

RECURSIVE OrderOf(_, _, _)
\* the insertion order of its keys
OrderOf(v, ts, n) ==
  IF n = 0 THEN <<>>
  ELSE OrderAll(OrderOf(v, ts, n - 1), IndexKeys(v, ts[n]))

(***************************************************************************)
(* Bounds and inputs                                                       *)
(***************************************************************************)

\* longest authoritative track list
MaxTracks == 2
\* most files in the album folder
MaxFiles == 2
\* longest title the pure functions are run on (besides the named titles)
MaxTitleLen == 3

\* "01 Intro", "Intro", "02 Song (feat. X)", "Intro Song" on the model's
\* alphabet
T_1s == <<"1", " ", "s">>
T_s == <<"s">>
T_2nFeat == <<"2", " ", "n", " ", "(", "feat", ".", " ", "S", ")">>
T_sn == <<"s", " ", "n">>

TrackTitles == {T_1s, T_s, T_2nFeat, T_sn}

\* the track lists of at most n entries
TrackListsUpTo(n) == UNION {[1..k -> TrackTitles] : k \in 0..n}

TrackLists == TrackListsUpTo(MaxTracks)

F_sMP3 == <<"s", ".", "MP3">>
F_Nflac == <<"N", ".", "flac">>
F_ntxt == <<"n", ".", "txt">>

FileNames == {F_sMP3, F_Nflac, F_ntxt}

\* the artist name the caller supplies
AlbumArtist == "Artist"

NoTags == Tags(NoTag, NoTag, NoTag)
OldTags == Tags(<<T_1s>>, <<9>>, <<"Other">>)

\* what a file of the folder can be: its tags, and whether opening its tag
\* container ("open") or saving it ("save") raises
FileStates ==
  { [tags |-> NoTags, fault |-> "none"],
    [tags |-> OldTags, fault |-> "none"],
    [tags |-> NoTags, fault |-> "open"],
    [tags |-> OldTags, fault |-> "save"] }

\* the folders of at most MaxFiles files; what a file that is not an audio
\* file holds does not matter, so it comes in one state only
Folders ==
  UNION { {d \in [S -> FileStates] :
             \A f \in S : ~IsAudio(f) => d[f] = [tags |-> NoTags, fault |-> "none"]} :
          S \in {X \in SUBSET FileNames : Cardinality(X) <= MaxFiles} }

\* the orders os.listdir can return the names of a folder in
Listings(S) == {q \in [1..Cardinality(S) -> S] : Range(q) = S}

(***************************************************************************)
(* State                                                                   *)
(***************************************************************************)
VARIABLES
  variant,      \* which program runs: "app" (app.py) or "app_new" (app_new.py)
  tracks,       \* album_data["tracks"]: the authoritative titles, in order
  folder_ok,    \* os.listdir(folder) succeeds
  disk,         \* file name -> [tags, fault]: the folder's files on disk
  before,       \* disk when the pass started
  pc,           \* where the pass is: "idle", "build", "files", "returned",
                \* "raised"
  idx,          \* enumerate(..., start=1) of the index builder
  track_order,  \* the index: normalized key -> position
  key_order,    \* the keys of track_order in insertion order
  todo,         \* the files the loop has still to visit, in its order
  pos,          \* how many files the loop has visited
  diag,         \* the per-file outcomes so far: file, note, number assigned
  jpc,          \* where download_album is ("none": the pass runs on its own)
  status,       \* download_status[download_id]['status']
  raised_by,    \* the call whose exception is propagating or was handled
                \* ("" if none)
  fetched,      \* self.ytmusic.get_album: "pending", "ok" (it returned) or
                \* "failed" (it raised and album_data was replaced)
  art_errors,   \* the files for which embedding the album art failed
  raw,          \* pure functions: the input title
  cleaned,      \* pure functions: the cleaned title
  recleaned,    \* pure functions: the cleaned title cleaned again
  key,          \* pure functions: normalize_title(raw)
  steps,        \* pure functions: which of them have been applied
  download_status,  \* the module's dict: download id -> [status, type]
  download_lock,    \* the thread that holds download_lock (Free if none)
  hpc,          \* where the handler of each download request is
  download_id,  \* the local download_id of each handler (0: not computed)
  req_type,     \* the kind of each download request
  tpc,          \* where the job thread of each download request is
  qpc,          \* where the handler of the status request is
  asked,        \* the download id the status request asks for
  reply,        \* the status it answers with
  accesses,     \* the reads and writes of download_status made so far, each
                \* with whether its thread held download_lock
  attempts,     \* the yt-dlp commands run_download_with_fallback has run, in
                \* order, each with its return code
  result,       \* the result it returned (<<>> before it has)
  trace,        \* the steps of download_album that have finished, in order
  job_kind,     \* the kind of the job its thread runs
  entries,      \* process_albums: the entries of the query still to handle
  wpc,          \* where the job thread is
  run,          \* which run of the pass over the folder this is
  first_run,    \* the folder as the first run of the pass left it
  found,        \* the track number the matching returned for a title
  tree,         \* the directories that exist, as paths from the root's parent
  dreq          \* the delete request that was served

inputVars == <<variant, tracks, folder_ok>>
passVars == <<disk, before, pc, idx, track_order, key_order, todo, pos, diag>>
jobVars == <<jpc, status, raised_by, fetched, art_errors>>
pureVars == <<raw, cleaned, recleaned, key, steps>>
reqVars == <<download_status, download_lock, hpc, download_id, req_type, tpc,
             qpc, asked, reply, accesses>>
dlVars == <<attempts, result, trace>>
threadVars == <<job_kind, entries, wpc>>
twiceVars == <<run, first_run>>
deleteVars == <<tree, dreq>>
moreVars == <<threadVars, twiceVars, found, deleteVars>>
vars == <<inputVars, passVars, jobVars, pureVars, reqVars, dlVars, moreVars>>

\* the pure-function variables when no pure function is being run
PureIdle ==
  /\ raw = <<>> /\ cleaned = <<>> /\ recleaned = <<>> /\ key = <<>>
  /\ steps = {}

\* the pass variables on folder d, the pass at p: "build" when it is being
\* entered, "idle" when it is not running
PassAt(p, d) ==
  /\ disk = d /\ before = d
  /\ pc = p /\ idx = 1
  /\ track_order = <<>> /\ key_order = <<>>
  /\ todo = <<>> /\ pos = 0 /\ diag = <<>>

\* download_lock when no thread holds it
Free == <<"free", 0>>

\* the request variables when no request is being served
NoRequest ==
  /\ download_status = <<>> /\ download_lock = Free
  /\ hpc = <<>> /\ download_id = <<>> /\ req_type = <<>> /\ tpc = <<>>
  /\ qpc = "idle" /\ asked = 0 /\ reply = "none"
  /\ accesses = {}

\* no download has been run and no step of download_album has finished
NoDownload == attempts = <<>> /\ result = <<>> /\ trace = <<>>

\* no job thread is modelled
NoThread == job_kind = "none" /\ entries = <<>> /\ wpc = "none"

\* the pass runs once
OneRun == run = 1 /\ first_run = <<>>

\* no title is being matched on its own
NoMatch == found = <<>>

\* no delete request is modelled
NoDelete == tree = {} /\ dreq = <<>>

\* the job variables when the pass runs on its own
NoJob ==
  /\ jpc = "none" /\ status = "none" /\ raised_by = ""
  /\ fetched = "pending" /\ art_errors = {}

(***************************************************************************)
(* The reconciliation pass                                                 *)
(* app.py:114-180 clean_track_titles_and_set_albumartist                   *)
(* app_new.py:201-281 fix_track_metadata                                   *)
(***************************************************************************)

\* one iteration of the loop over album_data["tracks"]
BuildIndexStep ==
  /\ pc = "build"
  /\ idx <= Len(tracks)
  /\ track_order' = PutAll(track_order, IndexKeys(variant, tracks[idx]), idx)
  /\ key_order' = OrderAll(key_order, IndexKeys(variant, tracks[idx]))
  /\ idx' = idx + 1
  /\ UNCHANGED <<inputVars, pureVars, reqVars, dlVars, moreVars, jobVars,
                 disk, before, pc, todo, pos, diag>>

\* Mutant of AudioFiles: the listing is not filtered on the extension.
AudioFilesUnfiltered(v, listing) ==
  IF v = "app" THEN SortedNames(Range(listing)) ELSE listing

\* the files the loop visits, in its order, given what os.listdir returned:
\* app.py sorts the audio files, app_new.py takes them as listed
AudioFiles(v, listing) ==
  LET audio_files == SelectSeq(listing, IsAudio)
  IN  IF v = "app" THEN SortedNames(Range(audio_files)) ELSE audio_files

\* Mutant of ListFolder: the failure of os.listdir is swallowed and the pass
\* goes on with no file.
ListFolderSwallowed ==
  /\ pc = "build"
  /\ idx > Len(tracks)
  /\ IF folder_ok
     THEN \E listing \in Listings(DOMAIN disk) :
            todo' = AudioFiles(variant, listing)
     ELSE todo' = <<>>
  /\ pc' = "files"
  /\ UNCHANGED <<inputVars, pureVars, reqVars, dlVars, moreVars, jobVars,
                 disk, before, idx, track_order, key_order, pos, diag>>

\* Mutant of ListFolder: the folder is listed, and the matching started,
\* while the loop over the authoritative list may still have entries to go.
ListFolderEarly ==
  /\ pc = "build"
  /\ IF folder_ok
     THEN \E listing \in Listings(DOMAIN disk) :
            /\ todo' = AudioFiles(variant, listing)
            /\ pc' = "files"
          /\ raised_by' = raised_by
     ELSE /\ todo' = todo
          /\ pc' = "raised"
          /\ raised_by' = "listdir"
  /\ UNCHANGED <<inputVars, pureVars, reqVars, dlVars, moreVars, jpc, status,
                 fetched, art_errors, disk, before, idx, track_order,
                 key_order, pos, diag>>

\* os.listdir(folder) and the filter on the extension; the call is outside
\* every try block of the pass, so its exception leaves the pass
ListFolder ==
  /\ pc = "build"
  /\ idx > Len(tracks)
  /\ IF folder_ok
     THEN \E listing \in Listings(DOMAIN disk) :
            /\ todo' = AudioFiles(variant, listing)
            /\ pc' = "files"
          /\ raised_by' = raised_by
     ELSE /\ todo' = todo
          /\ pc' = "raised"
          /\ raised_by' = "listdir"
  /\ UNCHANGED <<inputVars, pureVars, reqVars, dlVars, moreVars, jpc, status,
                 fetched, art_errors, disk, before, idx, track_order,
                 key_order, pos, diag>>

\* Mutant of NewTags: the album artist is written only for a file whose
\* track number was found.
NewTagsArtistOnMatch(v, file, tags, d, order, fallback_idx) ==
  LET title == RawTitle(file, tags)
      cleaned_title == CleanFile(v, title)
      track_num == TrackNum(v, d, order, title, cleaned_title)
  IN  [title |-> <<cleaned_title>>,
       albumartist |->
         IF track_num # <<>> THEN <<AlbumArtist>> ELSE tags.albumartist,
       tracknumber |->
         IF track_num # <<>> THEN track_num
         ELSE IF v = "app" THEN <<fallback_idx>>
         ELSE tags.tracknumber]

\* Mutant of NewTags: clean_track_titles_and_set_albumartist assigns its
\* positional number after, and so over, the number that was found.
NewTagsFallbackOverwrites(v, file, tags, d, order, fallback_idx) ==
  LET title == RawTitle(file, tags)
      cleaned_title == CleanFile(v, title)
      track_num == TrackNum(v, d, order, title, cleaned_title)
  IN  [title |-> <<cleaned_title>>,
       albumartist |-> <<AlbumArtist>>,
       tracknumber |->
         IF v = "app" THEN <<fallback_idx>>
         ELSE IF track_num # <<>> THEN track_num
         ELSE tags.tracknumber]

\* the tags the loop body holds for a file when it calls audio.save()
NewTags(v, file, tags, d, order, fallback_idx) ==
  LET title == RawTitle(file, tags)
      cleaned_title == CleanFile(v, title)
      track_num == TrackNum(v, d, order, title, cleaned_title)
  IN  [title |-> <<cleaned_title>>,
       albumartist |-> <<AlbumArtist>>,
       tracknumber |->
         IF track_num # <<>> THEN track_num
         ELSE IF v = "app" THEN <<fallback_idx>>
         ELSE tags.tracknumber]

\* the value the loop body assigns to audio["tracknumber"] (<<>> if it
\* assigns none)
Assigned(v, file, tags, d, order, fallback_idx) ==
  LET title == RawTitle(file, tags)
      track_num == TrackNum(v, d, order, title, CleanFile(v, title))
  IN  IF track_num # <<>> THEN track_num
      ELSE IF v = "app" THEN <<fallback_idx>>
      ELSE <<>>

\* what the loop body prints for a file it saved
Note(v, file, tags, d, order) ==
  LET title == RawTitle(file, tags)
  IN  IF TrackNum(v, d, order, title, CleanFile(v, title)) # <<>>
      THEN "matched"
      ELSE IF v = "app" THEN "fallback" ELSE "no match"

\* Mutant of ProcessFile: the exception of a file that cannot be opened or
\* saved is not caught and leaves the pass.
ProcessFileUncaught ==
  /\ pc = "files"
  /\ todo # <<>>
  /\ LET file == Head(todo)
         fallback_idx == pos + 1
     IN  IF disk[file].fault = "none"
         THEN /\ disk' = [disk EXCEPT ![file].tags =
                            NewTags(variant, file, disk[file].tags,
                                    track_order, key_order, fallback_idx)]
              /\ diag' = Append(diag,
                   [file |-> file,
                    note |-> Note(variant, file, disk[file].tags,
                                  track_order, key_order),
                    num |-> Assigned(variant, file, disk[file].tags,
                                     track_order, key_order, fallback_idx)])
              /\ pc' = pc
         ELSE /\ disk' = disk
              /\ diag' = diag
              /\ pc' = "raised"
  /\ todo' = Tail(todo)
  /\ pos' = pos + 1
  /\ UNCHANGED <<inputVars, pureVars, reqVars, dlVars, moreVars, jobVars,
                 before, idx, track_order, key_order>>

\* one iteration of the loop over the audio files: open, tag, save; any
\* exception is caught and the loop goes on with the next file
ProcessFile ==
  /\ pc = "files"
  /\ todo # <<>>
  /\ LET file == Head(todo)
         fallback_idx == pos + 1
     IN  IF disk[file].fault = "none"
         THEN /\ disk' = [disk EXCEPT ![file].tags =
                            NewTags(variant, file, disk[file].tags,
                                    track_order, key_order, fallback_idx)]
              /\ diag' = Append(diag,
                   [file |-> file,
                    note |-> Note(variant, file, disk[file].tags,
                                  track_order, key_order),
                    num |-> Assigned(variant, file, disk[file].tags,
                                     track_order, key_order, fallback_idx)])
         ELSE /\ disk' = disk
              /\ diag' = Append(diag,
                   [file |-> file, note |-> "error", num |-> <<>>])
  /\ todo' = Tail(todo)
  /\ pos' = pos + 1
  /\ UNCHANGED <<inputVars, pureVars, reqVars, dlVars, moreVars, jobVars,
                 before, pc, idx, track_order, key_order>>

\* the loop is over: the pass returns
FinishPass ==
  /\ pc = "files"
  /\ todo = <<>>
  /\ pc' = "returned"
  /\ UNCHANGED <<inputVars, pureVars, reqVars, dlVars, moreVars, jobVars,
                 disk, before, idx, track_order, key_order, todo, pos, diag>>

\* the pass on its own, from any track list and any folder
Init ==
  /\ variant \in Variants
  /\ tracks \in TrackLists
  /\ folder_ok \in BOOLEAN
  /\ \E d \in Folders : PassAt("build", d)
  /\ NoJob
  /\ PureIdle
  /\ NoRequest
  /\ NoDownload /\ NoThread /\ OneRun /\ NoMatch /\ NoDelete

Next ==
  \/ BuildIndexStep
  \/ ListFolder
  \/ ProcessFile
  \/ FinishPass

Spec == Init /\ [][Next]_vars

(***************************************************************************)
(* download_album of MusicDownloader (app.py:243-314, app_new.py:348-436)  *)
(* around the pass.  Each step is the code between two acquisitions of     *)
(* download_lock or two external calls; a step that raises hands over to   *)
(* the except clause of download_album.                                    *)
(***************************************************************************)

\* longest authoritative track list and most files of an album job
MaxJobTracks == 1
MaxJobFiles == 1

\* entry: the status is set, then the YTMusic client is required
JobStart ==
  /\ jpc = "start"
  /\ status' = IF variant = "app" THEN "downloading" ELSE "searching"
  /\ \E ytmusic \in BOOLEAN :
       IF ytmusic
       THEN jpc' = "metadata" /\ raised_by' = raised_by
       ELSE jpc' = "except" /\ raised_by' = "ytmusic"
  /\ UNCHANGED <<inputVars, passVars, pureVars, reqVars, dlVars, moreVars,
                 fetched, art_errors>>

\* Mutant of FetchMetadata: the exception of get_album is not caught and
\* reaches the except clause of download_album.
FetchMetadataUncaught ==
  /\ jpc = "metadata"
  /\ \E returned \in BOOLEAN :
       IF returned
       THEN /\ tracks' = tracks /\ fetched' = "ok"
            /\ jpc' = "mkdir" /\ raised_by' = raised_by
       ELSE /\ tracks' = tracks /\ fetched' = "failed"
            /\ jpc' = "except" /\ raised_by' = "get_album"
  /\ UNCHANGED <<variant, folder_ok, passVars, pureVars, reqVars, dlVars,
                 moreVars, status, art_errors>>

\* self.ytmusic.get_album(browse_id); when it raises the track list is
\* replaced by an empty one
FetchMetadata ==
  /\ jpc = "metadata"
  /\ \E returned \in BOOLEAN :
       IF returned
       THEN tracks' = tracks /\ fetched' = "ok"
       ELSE tracks' = <<>> /\ fetched' = "failed"
  /\ jpc' = "mkdir"
  /\ UNCHANGED <<variant, folder_ok, passVars, pureVars, reqVars, dlVars,
                 moreVars, status, raised_by, art_errors>>

\* os.makedirs(album_folder) and the dump of album_info.json
PrepareFolder ==
  /\ jpc = "mkdir"
  /\ \E made \in BOOLEAN :
       IF made
       THEN jpc' = "download" /\ raised_by' = raised_by
       ELSE jpc' = "except" /\ raised_by' = "makedirs"
  /\ UNCHANGED <<inputVars, passVars, pureVars, reqVars, dlVars, moreVars,
                 status, fetched, art_errors>>

\* the return codes of a yt-dlp command: 0, or one that is not 0
ReturnCodes == {0, 1}

\* the 'quality' of a request to app_new.py
Qualities == {"flac", "mp3"}

\* subprocess.run of the yt-dlp command for one format: what it returned
Attempt(fmt, code) == [fmt |-> fmt, code |-> code]

\* Mutant of run_download_with_fallback: the MP3 command is run whatever the
\* FLAC command returned.
run_download_without_test(v, quality, flac_code, mp3_code) ==
  IF v = "app"
  THEN [ran |-> <<Attempt("flac", flac_code), Attempt("mp3", mp3_code)>>,
        result |-> Attempt("mp3", mp3_code)]
  ELSE IF quality = "flac"
  THEN [ran |-> <<Attempt("flac", flac_code)>>,
        result |-> Attempt("flac", flac_code)]
  ELSE [ran |-> <<Attempt("mp3", mp3_code)>>,
        result |-> Attempt("mp3", mp3_code)]

\* run_download_with_fallback: the commands it runs, in order, and the result
\* it returns, given what the FLAC and the MP3 command return when run.
\* app.py runs FLAC and, if that fails, MP3; app_new.py runs the one command
\* of the requested quality.
run_download_with_fallback(v, quality, flac_code, mp3_code) ==
  IF v = "app"
  THEN IF flac_code = 0
       THEN [ran |-> <<Attempt("flac", flac_code)>>,
             result |-> Attempt("flac", flac_code)]
       ELSE [ran |-> <<Attempt("flac", flac_code), Attempt("mp3", mp3_code)>>,
             result |-> Attempt("mp3", mp3_code)]
  ELSE IF quality = "flac"
  THEN [ran |-> <<Attempt("flac", flac_code)>>,
        result |-> Attempt("flac", flac_code)]
  ELSE [ran |-> <<Attempt("mp3", mp3_code)>>,
        result |-> Attempt("mp3", mp3_code)]

\* Mutant of Download: the return code is not tested and the job goes on to
\* the album art.
DownloadUntested ==
  /\ jpc = "download"
  /\ status' = IF variant = "app_new" THEN "downloading" ELSE status
  /\ \E quality \in Qualities : \E flac_code, mp3_code \in ReturnCodes :
       LET call == run_download_with_fallback(variant, quality, flac_code,
                                              mp3_code)
       IN  /\ attempts' = call.ran
           /\ result' = call.result
           /\ jpc' = "art" /\ raised_by' = raised_by
           /\ trace' = Append(trace, "download")
  /\ UNCHANGED <<inputVars, passVars, pureVars, reqVars, moreVars, fetched,
                 art_errors>>

\* result = run_download_with_fallback(...) and the test of its return code:
\* a code that is not 0 raises
Download ==
  /\ jpc = "download"
  /\ status' = IF variant = "app_new" THEN "downloading" ELSE status
  /\ \E quality \in Qualities : \E flac_code, mp3_code \in ReturnCodes :
       LET call == run_download_with_fallback(variant, quality, flac_code,
                                              mp3_code)
       IN  /\ attempts' = call.ran
           /\ result' = call.result
           /\ IF call.result.code = 0
              THEN /\ jpc' = "art" /\ raised_by' = raised_by
                   /\ trace' = Append(trace, "download")
              ELSE /\ jpc' = "except" /\ raised_by' = "download"
                   /\ trace' = trace
  /\ UNCHANGED <<inputVars, passVars, pureVars, reqVars, moreVars, fetched,
                 art_errors>>

\* the audio files of the folder whose tag container cannot be opened or
\* saved: embedding the art fails for them as tagging does
ArtFailures == {f \in DOMAIN disk : IsAudio(f) /\ disk[f].fault # "none"}

\* Mutant of EmbedArt: the exception of a file whose art cannot be embedded
\* is not caught.
EmbedArtUncaught ==
  /\ jpc = "art"
  /\ pc = "idle"
  /\ \E art \in {"none", "failed", "fetched"} :
       IF variant = "app" /\ art = "failed"
       THEN /\ jpc' = "except" /\ raised_by' = "art" /\ pc' = pc
            /\ art_errors' = art_errors /\ trace' = trace
       ELSE IF art = "fetched" /\ ~folder_ok
       THEN /\ jpc' = "except" /\ raised_by' = "art" /\ pc' = pc
            /\ art_errors' = art_errors /\ trace' = trace
       ELSE IF art = "fetched" /\ ArtFailures # {}
       THEN /\ jpc' = "except" /\ raised_by' = "embed" /\ pc' = pc
            /\ art_errors' = ArtFailures /\ trace' = trace
       ELSE /\ jpc' = "pass" /\ raised_by' = raised_by /\ pc' = "build"
            /\ art_errors' = art_errors /\ trace' = Append(trace, "art")
  /\ UNCHANGED <<inputVars, pureVars, reqVars, attempts, result, moreVars,
                 status, fetched, disk, before, idx, track_order, key_order,
                 todo, pos, diag>>

\* the album-art step: no thumbnail, a thumbnail whose download fails, or a
\* thumbnail that is fetched and embedded file by file after
\* os.listdir(folder), each file in its own try block, so that a file that
\* fails is reported and skipped.  app.py lets the failure of requests.get
\* out, app_new.py catches it.  Then the pass is entered.
EmbedArt ==
  /\ jpc = "art"
  /\ pc = "idle"
  /\ \E art \in {"none", "failed", "fetched"} :
       IF variant = "app" /\ art = "failed"
       THEN /\ jpc' = "except" /\ raised_by' = "art" /\ pc' = pc
            /\ art_errors' = art_errors /\ trace' = trace
       ELSE IF art = "fetched" /\ ~folder_ok
       THEN /\ jpc' = "except" /\ raised_by' = "art" /\ pc' = pc
            /\ art_errors' = art_errors /\ trace' = trace
       ELSE /\ jpc' = "pass" /\ raised_by' = raised_by /\ pc' = "build"
            /\ art_errors' = IF art = "fetched" THEN ArtFailures ELSE {}
            /\ trace' = Append(trace, "art")
  /\ UNCHANGED <<inputVars, pureVars, reqVars, attempts, result, moreVars,
                 status, fetched, disk, before, idx, track_order, key_order,
                 todo, pos, diag>>

\* the pass returned to download_album
PassReturned ==
  /\ jpc = "pass"
  /\ pc = "returned"
  /\ jpc' = "beets"
  /\ trace' = Append(trace, "pass")
  /\ UNCHANGED <<inputVars, passVars, pureVars, reqVars, attempts, result,
                 moreVars, status, raised_by, fetched, art_errors>>

\* the exception of the pass reaches download_album
PassRaised ==
  /\ jpc = "pass"
  /\ pc = "raised"
  /\ jpc' = "except"
  /\ UNCHANGED <<inputVars, passVars, pureVars, reqVars, dlVars, moreVars,
                 status, raised_by, fetched, art_errors>>

\* run_beets_on_album: app.py catches CalledProcessError and
\* FileNotFoundError only, app_new.py catches every exception
RunBeets ==
  /\ jpc = "beets"
  /\ \E outcome \in {"ok", "failed", "oserror"} :
       IF variant = "app" /\ outcome = "oserror"
       THEN jpc' = "except" /\ raised_by' = "beets" /\ trace' = trace
       ELSE /\ jpc' = "perms" /\ raised_by' = raised_by
            /\ trace' = Append(trace, "beets")
  /\ UNCHANGED <<inputVars, passVars, pureVars, reqVars, attempts, result,
                 moreVars, status, fetched, art_errors>>

\* set_file_permissions: every exception is caught inside
SetPermissions ==
  /\ jpc = "perms"
  /\ jpc' = "complete"
  /\ trace' = Append(trace, "perms")
  /\ UNCHANGED <<inputVars, passVars, pureVars, reqVars, attempts, result,
                 moreVars, status, raised_by, fetched, art_errors>>

\* the last locked block of the try
Complete ==
  /\ jpc = "complete"
  /\ status' = "completed"
  /\ jpc' = "end"
  /\ UNCHANGED <<inputVars, passVars, pureVars, reqVars, dlVars, moreVars,
                 raised_by, fetched, art_errors>>

\* except Exception as e: the status becomes 'error'
JobExcept ==
  /\ jpc = "except"
  /\ status' = "error"
  /\ jpc' = "end"
  /\ UNCHANGED <<inputVars, passVars, pureVars, reqVars, dlVars, moreVars,
                 raised_by, fetched, art_errors>>

\* the folders of at most n files
FoldersUpTo(n) == {d \in Folders : Cardinality(DOMAIN d) <= n}

\* one album job: the handler has created the status record and the job
\* thread enters download_album
InitJob ==
  /\ variant \in Variants
  /\ tracks \in TrackListsUpTo(MaxJobTracks)
  /\ folder_ok \in BOOLEAN
  /\ \E d \in FoldersUpTo(MaxJobFiles) : PassAt("idle", d)
  /\ jpc = "start" /\ status = "searching" /\ raised_by = ""
  /\ fetched = "pending" /\ art_errors = {}
  /\ PureIdle
  /\ NoRequest
  /\ NoDownload /\ NoThread /\ OneRun /\ NoMatch /\ NoDelete

NextJob ==
  \/ JobStart
  \/ FetchMetadata
  \/ PrepareFolder
  \/ Download
  \/ EmbedArt
  \/ BuildIndexStep
  \/ ListFolder
  \/ ProcessFile
  \/ FinishPass
  \/ PassReturned
  \/ PassRaised
  \/ RunBeets
  \/ SetPermissions
  \/ Complete
  \/ JobExcept

SpecJob == InitJob /\ [][NextJob]_vars

(***************************************************************************)
(* The request handlers and their job threads on download_status           *)
(* app.py:467-570, 601-609; app_new.py:564-650, 673-676.  The server       *)
(* handles each request in a thread of its own, so the handlers and the    *)
(* job threads they start interleave at every step that does not hold      *)
(* download_lock.                                                          *)
(***************************************************************************)

\* the download requests that arrive
MaxRequests == 2

Requests == 1..MaxRequests

\* /download-album, /download-song, /download-track
RequestTypes == {"album", "song", "track"}

\* the status a handler creates the record with
FirstStatus(type) == IF type = "album" THEN "searching" ELSE "starting"

\* one access of the dict, by a thread that holds the lock or does not
Access(op, thread) == [op |-> op, locked |-> download_lock = thread]

\* the variables of the status request
statusVars == <<qpc, asked, reply>>

\* request.get_json() and the validation of the request: an empty query,
\* url, artist or title is answered with 400
Receive(r) ==
  /\ hpc[r] = "idle"
  /\ \E type \in RequestTypes : \E valid \in BOOLEAN :
       IF valid
       THEN /\ hpc' = [hpc EXCEPT ![r] = "read"]
            /\ req_type' = [req_type EXCEPT ![r] = type]
       ELSE /\ hpc' = [hpc EXCEPT ![r] = "rejected"]
            /\ req_type' = req_type
  /\ UNCHANGED <<inputVars, passVars, jobVars, pureVars, dlVars, moreVars,
                 statusVars, download_status, download_lock, download_id, tpc,
                 accesses>>

\* download_id = str(len(download_status) + 1), before the with block
ReadLen(r) ==
  /\ hpc[r] = "read"
  /\ download_id' =
       [download_id EXCEPT ![r] = Cardinality(DOMAIN download_status) + 1]
  /\ accesses' = accesses \cup {Access("len", <<"handler", r>>)}
  /\ hpc' = [hpc EXCEPT ![r] = "lock"]
  /\ UNCHANGED <<inputVars, passVars, jobVars, pureVars, dlVars, moreVars,
                 statusVars, download_status, download_lock, req_type, tpc>>

\* with download_lock: (the handler enters the block)
HandlerLock(r) ==
  /\ hpc[r] = "lock"
  /\ download_lock = Free
  /\ download_lock' = <<"handler", r>>
  /\ hpc' = [hpc EXCEPT ![r] = "insert"]
  /\ UNCHANGED <<inputVars, passVars, jobVars, pureVars, dlVars, moreVars,
                 statusVars, download_status, download_id, req_type, tpc,
                 accesses>>

\* download_status[download_id] = {...}, and the end of the with block
Insert(r) ==
  /\ hpc[r] = "insert"
  /\ download_status' =
       DictPut(download_status, download_id[r],
               [status |-> FirstStatus(req_type[r]), type |-> req_type[r]])
  /\ accesses' = accesses \cup {Access("insert", <<"handler", r>>)}
  /\ download_lock' = Free
  /\ hpc' = [hpc EXCEPT ![r] = "spawn"]
  /\ UNCHANGED <<inputVars, passVars, jobVars, pureVars, dlVars, moreVars,
                 statusVars, download_id, req_type, tpc>>

\* thread.start() and the answer {'download_id': download_id}
StartThread(r) ==
  /\ hpc[r] = "spawn"
  /\ tpc' = [tpc EXCEPT ![r] = "start"]
  /\ hpc' = [hpc EXCEPT ![r] = "done"]
  /\ UNCHANGED <<inputVars, passVars, jobVars, pureVars, dlVars, moreVars,
                 statusVars, download_status, download_lock, download_id,
                 req_type, accesses>>

\* the job thread enters a with download_lock block: the first one of its
\* job, or the one that ends it
JobLock(r) ==
  /\ tpc[r] \in {"start", "running"}
  /\ download_lock = Free
  /\ download_lock' = <<"job", r>>
  /\ tpc' = [tpc EXCEPT ![r] = IF tpc[r] = "start" THEN "first" ELSE "last"]
  /\ UNCHANGED <<inputVars, passVars, jobVars, pureVars, dlVars, moreVars,
                 statusVars, download_status, hpc, download_id, req_type,
                 accesses>>

\* download_status[download_id]['status'] = ... in the block, and its end:
\* 'downloading' (download_album of app_new.py: 'searching') when the job
\* starts, 'completed' or 'error' when it ends
JobWrite(r) ==
  /\ tpc[r] \in {"first", "last"}
  /\ \E new \in IF tpc[r] = "last" THEN {"completed", "error"}
                ELSE IF variant = "app_new" /\ req_type[r] = "album"
                THEN {"searching"} ELSE {"downloading"} :
       download_status' =
         [download_status EXCEPT ![download_id[r]].status = new]
  /\ accesses' = accesses \cup {Access("write", <<"job", r>>)}
  /\ download_lock' = Free
  /\ tpc' = [tpc EXCEPT ![r] = IF tpc[r] = "first" THEN "running" ELSE "done"]
  /\ UNCHANGED <<inputVars, passVars, jobVars, pureVars, dlVars, moreVars,
                 statusVars, hpc, download_id, req_type>>

\* the ids a status request may ask for
AskedIds == 1..(MaxRequests + 1)

\* GET /download-status/<download_id>
StatusReceive ==
  /\ qpc \in {"idle", "done"}
  /\ \E id \in AskedIds : asked' = id
  /\ qpc' = "lock"
  /\ reply' = "none"
  /\ UNCHANGED <<inputVars, passVars, jobVars, pureVars, dlVars, moreVars,
                 download_status, download_lock, hpc, download_id, req_type,
                 tpc, accesses>>

\* with download_lock: (the status handler enters the block)
StatusLock ==
  /\ qpc = "lock"
  /\ download_lock = Free
  /\ download_lock' = <<"status", 0>>
  /\ qpc' = "get"
  /\ UNCHANGED <<inputVars, passVars, jobVars, pureVars, dlVars, moreVars,
                 download_status, hpc, download_id, req_type, tpc, asked,
                 reply, accesses>>

\* download_status.get(download_id, {'status': 'not_found', ...}) and the end
\* of the block.  app_new.py serializes the record inside the block; app.py
\* leaves the block with a reference to the record and serializes it after.
StatusGet ==
  /\ qpc = "get"
  /\ reply' = IF asked \in DOMAIN download_status
              THEN download_status[asked].status ELSE "not_found"
  /\ accesses' = accesses \cup {Access("get", <<"status", 0>>)}
  /\ download_lock' = Free
  /\ qpc' = IF variant = "app" THEN "serialize" ELSE "done"
  /\ UNCHANGED <<inputVars, passVars, jobVars, pureVars, dlVars, moreVars,
                 download_status, hpc, download_id, req_type, tpc, asked>>

\* return jsonify(status) of app.py: the record is read as it is now
StatusSerialize ==
  /\ qpc = "serialize"
  /\ reply' = IF reply = "not_found" THEN reply
              ELSE download_status[asked].status
  /\ accesses' =
       IF reply = "not_found" THEN accesses
       ELSE accesses \cup {Access("serialize", <<"status", 0>>)}
  /\ qpc' = "done"
  /\ UNCHANGED <<inputVars, passVars, jobVars, pureVars, dlVars, moreVars,
                 download_status, download_lock, hpc, download_id, req_type,
                 tpc, asked>>

\* the server after start-up: no download yet, MaxRequests download requests
\* and the status requests still to come
InitReq ==
  /\ variant \in Variants
  /\ tracks = <<>>
  /\ folder_ok = TRUE
  /\ PassAt("idle", <<>>)
  /\ NoJob
  /\ PureIdle
  /\ download_status = <<>>
  /\ download_lock = Free
  /\ hpc = [r \in Requests |-> "idle"]
  /\ download_id = [r \in Requests |-> 0]
  /\ req_type = [r \in Requests |-> "none"]
  /\ tpc = [r \in Requests |-> "none"]
  /\ qpc = "idle" /\ asked = 0 /\ reply = "none"
  /\ accesses = {}
  /\ NoDownload /\ NoThread /\ OneRun /\ NoMatch /\ NoDelete

NextReq ==
  \/ \E r \in Requests : Receive(r)
  \/ \E r \in Requests : ReadLen(r)
  \/ \E r \in Requests : HandlerLock(r)
  \/ \E r \in Requests : Insert(r)
  \/ \E r \in Requests : StartThread(r)
  \/ \E r \in Requests : JobLock(r)
  \/ \E r \in Requests : JobWrite(r)
  \/ StatusReceive
  \/ StatusLock
  \/ StatusGet
  \/ StatusSerialize

SpecReq == InitReq /\ [][NextReq]_vars

(***************************************************************************)
(* The pure functions on their own: the Title Cleaner of either variant    *)
(* applied once and twice, and the Key Normalizer                          *)
(***************************************************************************)

CleanAlphabet ==
  {"s", "S", "1", " ", NL, "(", ")", "[", "]", "-", ".", "_", "feat", "Explicit"}

\* "03 - Song", "[Explicit]", "Song (feat. N)", "1 2 Song", "([x]Explicit)",
\* "(Explicit) [Explicit]", "Song_N"
NamedTitles ==
  { <<"1", " ", "-", " ", "s">>,
    <<"[", "Explicit", "]">>,
    <<"s", " ", "(", "FEAT", ".", " ", "n", ")">>,
    <<"1", " ", "2", " ", "s">>,
    <<"(", "[", "s", "]", "Explicit", ")">>,
    <<"(", "Explicit", ")", " ", "[", "EXPLICIT", "]">>,
    <<"s", "_", "n">>,
    T_1s, T_2nFeat }

TitleInputs ==
  NamedTitles \cup UNION {[1..n -> CleanAlphabet] : n \in 0..MaxTitleLen}

\* cleaned_title = clean_title(title) (app_new.py:242), app.py:159-163
CleanTitle ==
  /\ steps = {}
  /\ cleaned' = CleanFile(variant, raw)
  /\ steps' = {"clean"}
  /\ UNCHANGED <<inputVars, passVars, jobVars, reqVars, dlVars, moreVars, raw,
                 recleaned, key>>

\* the cleaner applied to its own result (a second pass over the folder
\* reads the title the first one wrote)
CleanAgain ==
  /\ steps = {"clean"}
  /\ recleaned' = CleanFile(variant, cleaned)
  /\ steps' = {"clean", "reclean"}
  /\ UNCHANGED <<inputVars, passVars, jobVars, reqVars, dlVars, moreVars, raw,
                 cleaned, key>>

\* norm = self.normalize_title(title)
NormalizeTitle ==
  /\ steps = {}
  /\ key' = normalize_title(raw)
  /\ steps' = {"normalize"}
  /\ UNCHANGED <<inputVars, passVars, jobVars, reqVars, dlVars, moreVars, raw,
                 cleaned, recleaned>>

InitPure ==
  /\ variant \in Variants
  /\ tracks = <<>>
  /\ folder_ok = TRUE
  /\ PassAt("idle", <<>>)
  /\ NoJob
  /\ NoRequest
  /\ NoDownload /\ NoThread /\ OneRun /\ NoMatch /\ NoDelete
  /\ raw \in TitleInputs
  /\ cleaned = <<>> /\ recleaned = <<>> /\ key = <<>>
  /\ steps = {}

NextPure ==
  \/ CleanTitle
  \/ CleanAgain
  \/ NormalizeTitle

SpecPure == InitPure /\ [][NextPure]_vars

(***************************************************************************)
(* The job thread of one accepted download request                         *)
(* app.py:485-512 process_albums, 326-373 download_song, 375-417           *)
(* download_artist_song; app_new.py:578-612 task, 446-483, 485-514.        *)
(* A block under download_lock is one step: no thread blocks while it      *)
(* holds the lock.                                                         *)
(***************************************************************************)

\* most entries of the query of an album request
MaxEntries == 2

\* an entry of the query has a '-' or has none
EntryKinds == {"dash", "nodash"}

\* query.split(','): at least one entry, the query not being empty
EntryLists == UNION {[1..n -> EntryKinds] : n \in 1..MaxEntries}

\* the jobs a thread is started for; "browse" is an album request with a
\* browseId, which only app_new.py reads
JobKinds(v) ==
  IF v = "app"
  THEN {"album", "song", "track"}
  ELSE {"album", "browse", "song", "track"}

\* the album of an entry: its authoritative list and its folder
ThreadTracks == {<<>>, <<T_s>>}
ThreadFolders == FoldersUpTo(1)

\* the statuses a job ends in
Terminal == {"completed", "error"}

\* for entry in entries: the loop ends, or the format of the entry is tested
CheckEntry ==
  /\ wpc = "loop"
  /\ IF entries = <<>>
     THEN wpc' = "done" /\ status' = status
     ELSE IF Head(entries) = "nodash" /\ job_kind # "browse"
     THEN wpc' = "done" /\ status' = "error"
     ELSE wpc' = "search" /\ status' = status
  /\ UNCHANGED <<inputVars, passVars, pureVars, reqVars, dlVars, twiceVars,
                 found, deleteVars, jpc, raised_by, fetched, art_errors,
                 job_kind, entries>>

\* Mutant of SearchAlbum: the exception of the search is not caught by
\* search_album and leaves the loop; process_albums of app.py catches it,
\* task of app_new.py has no handler.
SearchAlbumUncaught ==
  /\ wpc = "search"
  /\ IF job_kind = "browse"
     THEN wpc' = "call" /\ status' = status
     ELSE \E outcome \in {"found", "none", "raised"} :
            IF outcome = "found"
            THEN wpc' = "call" /\ status' = status
            ELSE IF outcome = "none" \/ variant = "app"
            THEN wpc' = "done" /\ status' = "error"
            ELSE wpc' = "done" /\ status' = status
  /\ UNCHANGED <<inputVars, passVars, pureVars, reqVars, dlVars, twiceVars,
                 found, deleteVars, jpc, raised_by, fetched, art_errors,
                 job_kind, entries>>

\* album_info = downloader.search_album(...), or the browseId of the
\* request; search_album returns None when the search raises
SearchAlbum ==
  /\ wpc = "search"
  /\ IF job_kind = "browse"
     THEN wpc' = "call" /\ status' = status
     ELSE \E outcome \in {"found", "none", "raised"} :
            IF outcome = "found"
            THEN wpc' = "call" /\ status' = status
            ELSE wpc' = "done" /\ status' = "error"
  /\ UNCHANGED <<inputVars, passVars, pureVars, reqVars, dlVars, twiceVars,
                 found, deleteVars, jpc, raised_by, fetched, art_errors,
                 job_kind, entries>>

\* downloader.download_album(album_info, ...) is entered, for the album of
\* this entry
CallDownloadAlbum ==
  /\ wpc = "call"
  /\ wpc' = "album"
  /\ jpc' = "start" /\ raised_by' = "" /\ fetched' = "pending"
  /\ art_errors' = {}
  /\ attempts' = <<>> /\ result' = <<>> /\ trace' = <<>>
  /\ tracks' \in ThreadTracks
  /\ folder_ok' \in BOOLEAN
  /\ disk' \in ThreadFolders
  /\ before' = disk'
  /\ pc' = "idle" /\ idx' = 1
  /\ track_order' = <<>> /\ key_order' = <<>>
  /\ todo' = <<>> /\ pos' = 0 /\ diag' = <<>>
  /\ UNCHANGED <<variant, pureVars, reqVars, twiceVars, found, deleteVars,
                 status, job_kind, entries>>

\* download_album has returned: the loop goes on with the next entry
ReturnToLoop ==
  /\ wpc = "album"
  /\ jpc = "end"
  /\ entries' = Tail(entries)
  /\ wpc' = "loop"
  /\ jpc' = "none"
  /\ UNCHANGED <<inputVars, passVars, pureVars, reqVars, dlVars, twiceVars,
                 found, deleteVars, status, raised_by, fetched, art_errors,
                 job_kind>>

\* download_song and download_artist_song are entered: the first locked
\* block
EnterSong ==
  /\ wpc = "enter"
  /\ status' = "downloading"
  /\ wpc' = "lookup"
  /\ UNCHANGED <<inputVars, passVars, pureVars, reqVars, dlVars, twiceVars,
                 found, deleteVars, jpc, raised_by, fetched, art_errors,
                 job_kind, entries>>

\* download_song: the metadata lookup, whose exceptions are swallowed;
\* download_artist_song: the search, which raises or finds nothing or
\* returns a song
Lookup ==
  /\ wpc = "lookup"
  /\ \E outcome \in {"found", "none", "raised"} :
       IF job_kind = "song" \/ outcome = "found"
       THEN wpc' = "download" /\ raised_by' = raised_by
       ELSE wpc' = "except" /\ raised_by' = "search"
  /\ UNCHANGED <<inputVars, passVars, pureVars, reqVars, dlVars, twiceVars,
                 found, deleteVars, jpc, status, fetched, art_errors,
                 job_kind, entries>>

\* result = run_download_with_fallback(...) and the test of its return code
SongDownload ==
  /\ wpc = "download"
  /\ \E quality \in Qualities : \E flac_code, mp3_code \in ReturnCodes :
       LET call == run_download_with_fallback(variant, quality, flac_code,
                                              mp3_code)
       IN  /\ attempts' = call.ran
           /\ result' = call.result
           /\ IF call.result.code = 0
              THEN wpc' = "complete" /\ raised_by' = raised_by
              ELSE wpc' = "except" /\ raised_by' = "download"
  /\ UNCHANGED <<inputVars, passVars, pureVars, reqVars, twiceVars, found,
                 deleteVars, jpc, status, fetched, art_errors, trace,
                 job_kind, entries>>

\* the last locked block of the try
SongComplete ==
  /\ wpc = "complete"
  /\ status' = "completed"
  /\ wpc' = "done"
  /\ UNCHANGED <<inputVars, passVars, pureVars, reqVars, dlVars, twiceVars,
                 found, deleteVars, jpc, raised_by, fetched, art_errors,
                 job_kind, entries>>

\* except Exception as e: the status becomes 'error'
SongExcept ==
  /\ wpc = "except"
  /\ status' = "error"
  /\ wpc' = "done"
  /\ UNCHANGED <<inputVars, passVars, pureVars, reqVars, dlVars, twiceVars,
                 found, deleteVars, jpc, raised_by, fetched, art_errors,
                 job_kind, entries>>

\* the handler has created the status record and started the thread
InitThread ==
  /\ variant \in Variants
  /\ tracks = <<>> /\ folder_ok = TRUE
  /\ PassAt("idle", <<>>)
  /\ jpc = "none" /\ raised_by = ""
  /\ fetched = "pending" /\ art_errors = {}
  /\ job_kind \in JobKinds(variant)
  /\ status = FirstStatus(IF job_kind = "browse" THEN "album" ELSE job_kind)
  /\ entries \in (IF job_kind \in {"album", "browse"}
                  THEN EntryLists ELSE {<<>>})
  /\ wpc = (IF job_kind \in {"album", "browse"} THEN "loop" ELSE "enter")
  /\ PureIdle
  /\ NoRequest
  /\ NoDownload /\ OneRun /\ NoMatch /\ NoDelete

NextThread ==
  \/ CheckEntry
  \/ SearchAlbum
  \/ CallDownloadAlbum
  \/ NextJob
  \/ ReturnToLoop
  \/ EnterSong
  \/ Lookup
  \/ SongDownload
  \/ SongComplete
  \/ SongExcept

SpecThread == InitThread /\ [][NextThread]_vars

\* the steps of the thread outside the two loops of the pass
StepOutsideLoops ==
  \/ CheckEntry
  \/ SearchAlbum
  \/ CallDownloadAlbum
  \/ JobStart
  \/ FetchMetadata
  \/ PrepareFolder
  \/ Download
  \/ EmbedArt
  \/ ListFolder
  \/ FinishPass
  \/ PassReturned
  \/ PassRaised
  \/ RunBeets
  \/ SetPermissions
  \/ Complete
  \/ JobExcept
  \/ ReturnToLoop
  \/ EnterSong
  \/ Lookup
  \/ SongDownload
  \/ SongComplete
  \/ SongExcept

\* BuildIndexStep and ProcessFile as seen on the counters they advance
IndexLoopStep == pc = "build" /\ idx <= Len(tracks) /\ idx' = idx + 1
FileLoopStep == pc = "files" /\ todo # <<>> /\ pos' = pos + 1

\* the thread is scheduled and each external call returns or raises: a step
\* that can be taken is taken.  The thread is the only process, so that weak
\* fairness of its next step is all that is assumed; for the two loops of
\* the pass it is stated on their counters.
SpecThreadFair ==
  /\ SpecThread
  /\ WF_vars(StepOutsideLoops)
  /\ WF_idx(IndexLoopStep)
  /\ WF_pos(FileLoopStep)

(***************************************************************************)
(* The pass run twice over one folder, with the same authoritative list    *)
(***************************************************************************)

\* the pass has returned and is called again on the folder as it left it
RunAgain ==
  /\ pc = "returned"
  /\ run = 1
  /\ run' = 2
  /\ first_run' = disk
  /\ before' = disk
  /\ pc' = "build" /\ idx' = 1
  /\ track_order' = <<>> /\ key_order' = <<>>
  /\ todo' = <<>> /\ pos' = 0 /\ diag' = <<>>
  /\ UNCHANGED <<inputVars, jobVars, pureVars, reqVars, dlVars, threadVars,
                 found, deleteVars, disk>>

NextTwice ==
  \/ Next
  \/ RunAgain

SpecTwice == Init /\ [][NextTwice]_vars

(***************************************************************************)
(* The matching of fix_track_metadata on one title (app_new.py:242-270)    *)
(***************************************************************************)

\* the titles read from a file: some of letters, some of punctuation only
MatchTitles ==
  { T_s, T_sn, T_1s, <<"S">>, <<"n">>, <<"2">>, <<"-">>, <<"!", "!">>,
    <<"s", " ", "-">>, <<" ">> }

\* cleaned_title = self.clean_title(title) and the three matching
\* strategies, against the index of the authoritative list
MatchTitle ==
  /\ steps = {}
  /\ cleaned' = CleanFile(variant, raw)
  /\ found' = <<TrackNum(variant, IndexOf(variant, tracks, Len(tracks)),
                         OrderOf(variant, tracks, Len(tracks)), raw,
                         CleanFile(variant, raw))>>
  /\ steps' = {"match"}
  /\ UNCHANGED <<inputVars, passVars, jobVars, reqVars, dlVars, threadVars,
                 twiceVars, deleteVars, raw, recleaned, key>>

InitMatch ==
  /\ variant = "app_new"
  /\ tracks \in TrackLists
  /\ folder_ok = TRUE
  /\ PassAt("idle", <<>>)
  /\ NoJob
  /\ raw \in MatchTitles
  /\ cleaned = <<>> /\ recleaned = <<>> /\ key = <<>> /\ steps = {}
  /\ NoRequest
  /\ NoDownload /\ NoThread /\ OneRun /\ NoMatch /\ NoDelete

NextMatch ==
  \/ MatchTitle

SpecMatch == InitMatch /\ [][NextMatch]_vars

(***************************************************************************)
(* The delete requests                                                     *)
(* app.py:419-433, 572-599; app_new.py:516-528, 650-671                    *)
(* A directory is the sequence of the names that lead to it from the       *)
(* parent of the parent of the library root.                               *)
(***************************************************************************)

\* longest artist or album name of a delete request
MaxNameLen == 2

\* the characters of those names
NameChars == {"A", "B", "X", "?", "."}

\* the names the handlers accept: not empty once stripped of spaces
Names == UNION {[1..n -> NameChars] : n \in 1..MaxNameLen}

\* the characters of the class [\\/*?:"<>|]
Stripped == {"\\", "/", "*", "?", ":", "\"", "<", ">", "|"}

\* re.sub(r'[\\/*?:"<>|]', '', name)
sanitize_filename(name) == SelectSeq(name, LAMBDA c : c \notin Stripped)

\* the library root, /app/Music
MUSIC_DIR == << <<"app">>, <<"Music">> >>

\* the directories that exist before the request: two artists with their
\* albums inside the library, and directories beside and above it
Library ==
  { <<>>, << <<"etc">> >>, << <<"app">> >>, << <<"app">>, <<"other">> >>,
    MUSIC_DIR,
    MUSIC_DIR \o << <<"A">> >>,
    MUSIC_DIR \o << <<"A">>, <<"X">> >>,
    MUSIC_DIR \o << <<"A">>, <<"B">> >>,
    MUSIC_DIR \o << <<"B">> >>,
    MUSIC_DIR \o << <<"B">>, <<"X">> >> }

\* p is q or lies above q
IsPrefix(p, q) == Len(p) <= Len(q) /\ SubSeq(q, 1, Len(p)) = p

RECURSIVE Walk(_, _, _)
\* the directory that os.path.join(cur, *comps) names in tree t, and whether
\* it exists: an empty component and "." stay, ".." goes up, and every
\* directory on the way has to exist
Walk(t, cur, comps) ==
  IF cur \notin t THEN [dir |-> cur, exists |-> FALSE]
  ELSE IF comps = <<>> THEN [dir |-> cur, exists |-> TRUE]
  ELSE LET c == Head(comps)
       IN  IF c = <<>> \/ c = <<".">>
           THEN Walk(t, cur, Tail(comps))
           ELSE IF c = <<".", ".">>
           THEN Walk(t, SubSeq(cur, 1, Len(cur) - 1), Tail(comps))
           ELSE Walk(t, Append(cur, c), Tail(comps))

\* the path ends in "." or "..": os.rmdir of it fails once shutil.rmtree has
\* emptied the directory
EndsInDot(comps) ==
  LET named == SelectSeq(comps, LAMBDA c : c # <<>>)
  IN  named # <<>> /\ named[Len(named)] \in {<<".">>, <<".", ".">>}

\* if os.path.isdir(path): shutil.rmtree(path), on the path
\* os.path.join(MUSIC_DIR, *comps): the tree that is left
RemoveTree(t, comps) ==
  LET w == Walk(t, MUSIC_DIR, comps)
  IN  IF w.exists
      THEN {p \in t : ~IsPrefix(w.dir, p) \/ (EndsInDot(comps) /\ p = w.dir)}
      ELSE t

\* MusicDownloader.delete_artist_folder
delete_artist_folder(t, artist) ==
  RemoveTree(t, <<sanitize_filename(artist)>>)

\* MusicDownloader.delete_artist_album
delete_artist_album(t, artist, album) ==
  RemoveTree(t, <<sanitize_filename(artist), sanitize_filename(album)>>)

\* POST /delete-artist with a name that is not empty
DeleteArtist ==
  /\ dreq = <<>>
  /\ \E artist \in Names :
       /\ dreq' = [kind |-> "artist", artist |-> artist, album |-> <<>>]
       /\ tree' = delete_artist_folder(tree, artist)
  /\ UNCHANGED <<inputVars, passVars, jobVars, pureVars, reqVars, dlVars,
                 threadVars, twiceVars, found>>

\* POST /delete-album with two names that are not empty
DeleteAlbum ==
  /\ dreq = <<>>
  /\ \E artist \in Names, album \in Names :
       /\ dreq' = [kind |-> "album", artist |-> artist, album |-> album]
       /\ tree' = delete_artist_album(tree, artist, album)
  /\ UNCHANGED <<inputVars, passVars, jobVars, pureVars, reqVars, dlVars,
                 threadVars, twiceVars, found>>

InitDelete ==
  /\ variant \in Variants
  /\ tracks = <<>> /\ folder_ok = TRUE
  /\ PassAt("idle", <<>>)
  /\ NoJob
  /\ PureIdle
  /\ NoRequest
  /\ NoDownload /\ NoThread /\ OneRun /\ NoMatch
  /\ tree = Library /\ dreq = <<>>

NextDelete ==
  \/ DeleteArtist
  \/ DeleteAlbum

SpecDelete == InitDelete /\ [][NextDelete]_vars

(***************************************************************************)
(* Claims about the pure functions (checked under SpecPure)                *)
(***************************************************************************)

\* C5: cleanTitle is idempotent: cleaning a title that has already been
\* cleaned returns it unchanged, for every input and both variants.
C5_CleanTitleIdempotent ==
  "reclean" \in steps => recleaned = cleaned

\* a title that is neither empty nor made of blanks only
NonBlank(title) == \E i \in 1..Len(title) : ~IsSpace(title[i])

\* C6: for an input that is not empty and not made of blanks only, cleanTitle
\* never returns the empty string (the trimmed original is kept when the
\* removals would leave nothing).
C6_CleanTitleNeverEmpty ==
  ("clean" \in steps /\ NonBlank(raw)) => cleaned # <<>>

\* s holds a parenthetical "(feat. ...)" segment, in any letter case
HasFeatSegment(s) ==
  \E i \in 1..Len(s) : \E j \in (i + 3)..Len(s) :
    /\ s[i] = "(" /\ LowerChunk(s[i + 1]) = "feat" /\ s[i + 2] = "."
    /\ s[j] = ")"

\* s holds an "(Explicit)" or "[Explicit]" marker, in any letter case
HasExplicitMarker(s) ==
  \E i \in 1..(Len(s) - 2) :
    /\ LowerChunk(s[i + 1]) = "explicit"
    /\ \/ (s[i] = "(" /\ s[i + 2] = ")")
       \/ (s[i] = "[" /\ s[i + 2] = "]")

\* s holds a bracketed "[...]" segment
HasBracketSegment(s) ==
  \E i \in 1..Len(s) : \E j \in (i + 1)..Len(s) : s[i] = "[" /\ s[j] = "]"

\* s has no leading and no trailing blank
IsTrimmed(s) == s = <<>> \/ (~IsSpace(s[1]) /\ ~IsSpace(s[Len(s)]))

\* C7: the result of clean_title (app_new.py) has no leading or trailing
\* whitespace and holds no "(feat. ...)" segment, no "(Explicit)" or
\* "[Explicit]" marker and no bracketed "[...]" segment, for every input.
C7_CleanTitleResultHasNoMarker ==
  ("clean" \in steps /\ variant = "app_new") =>
    /\ IsTrimmed(cleaned)
    /\ ~HasFeatSegment(cleaned)
    /\ ~HasExplicitMarker(cleaned)
    /\ ~HasBracketSegment(cleaned)

\* C8: normalize_title returns exactly the letters and digits of its input,
\* in order and lowercased; every other character, the underscore included,
\* is removed.
C8_NormalizeKeepsOnlyLettersAndDigits ==
  "normalize" \in steps => key = Lower(SelectSeq(raw, IsAlnum))

(***************************************************************************)
(* Claims about the reconciliation pass (checked under Spec)               *)
(***************************************************************************)

\* the index is complete: the loop over the authoritative list is over
IndexBuilt == pc # "idle" /\ idx > Len(tracks)

\* the title the pass read for file f, and its cleaned form
TitleRead(f) == RawTitle(f, before[f].tags)
CleanedRead(f) == CleanFile(variant, TitleRead(f))

\* the two exact keys of file f
KeyCleaned(f) == normalize_title(CleanedRead(f))
KeyRaw(f) == normalize_title(TitleRead(f))

\* the pass found no track number for f in the index
NoNumberFound(f) ==
  TrackNum(variant, track_order, key_order, TitleRead(f), CleanedRead(f)) = <<>>

\* C1: a file for which no track number was found in the index keeps the
\* track-number tag it had before the pass (absent stays absent); no guessed
\* or positional number is written.
C1_NoMatchKeepsTrackNumber ==
  \A i \in 1..Len(diag) :
    NoNumberFound(diag[i].file) =>
      /\ diag[i].num = <<>>
      /\ disk[diag[i].file].tags.tracknumber
           = before[diag[i].file].tags.tracknumber

C3_LastWriteWins ==
  pc # "idle" =>
    LET produced == {<<p, Range(IndexKeys(variant, tracks[p]))>> :
                       p \in 1..(idx - 1)}
    IN  /\ DOMAIN track_order = UNION {e[2] : e \in produced}
        /\ \A k \in DOMAIN track_order :
             track_order[k] = Max({e[1] : e \in {x \in produced : k \in x[2]}})

\* C3 witness: the list ["Intro", "Intro"] is indexed and the key maps to 2
C3_DuplicateTitleIndexed ==
  /\ IndexBuilt
  /\ tracks = <<T_s, T_s>>
  /\ track_order[normalize_title(T_s)] = 2

\* C4: for every authoritative entry at position p with raw title t, the
\* built index holds normalize(t) and normalize(cleanTitle(t)), cleanTitle
\* being the cleaner the file loop applies to file titles; each key maps to p
\* unless a later entry overwrote it.
C4_IndexHoldsRawAndCleanedKey ==
  IndexBuilt =>
    \A p \in 1..Len(tracks) :
      /\ normalize_title(tracks[p]) \in DOMAIN track_order
      /\ track_order[normalize_title(tracks[p])] >= p
      /\ normalize_title(CleanFile(variant, tracks[p])) \in DOMAIN track_order
      /\ track_order[normalize_title(CleanFile(variant, tracks[p]))] >= p

\* the audio files of the folder
AudioOnDisk == {f \in DOMAIN disk : IsAudio(f)}

\* C9: an exception while opening, tagging or saving one file is caught for
\* that file and the pass goes on: no file fault makes the pass raise, the
\* loop visits every audio file, and when the pass has returned every audio
\* file that can be opened and saved has its tags written, wherever the
\* failing files stand in the processing order.
C9_FileFailureDoesNotAbort ==
  /\ (pc = "raised" => ~folder_ok)
  /\ (pc = "files" =>
        Range(todo) \cup {diag[i].file : i \in 1..Len(diag)} = AudioOnDisk)
  /\ (pc = "returned" =>
        /\ {diag[i].file : i \in 1..Len(diag)} = AudioOnDisk
        /\ \A f \in AudioOnDisk :
             disk[f].fault = "none" =>
               /\ disk[f].tags.albumartist = <<AlbumArtist>>
               /\ disk[f].tags.title = <<CleanedRead(f)>>)

\* C9 witness: the pass returned after a file failed and a file visited
\* after it was tagged
C9_FailureThenTaggedFile ==
  /\ pc = "returned"
  /\ \E i \in 1..Len(diag) : \E j \in (i + 1)..Len(diag) :
       /\ diag[i].note = "error"
       /\ diag[j].note # "error"
       /\ disk[diag[j].file].tags.albumartist = <<AlbumArtist>>

(***************************************************************************)
(* Claims about the album job around the pass (checked under SpecJob)      *)
(***************************************************************************)

\* the calls of download_album and of the pass that lie outside every
\* per-file try block
StructuralCalls == {"ytmusic", "makedirs", "download", "art", "listdir", "beets"}

\* C10: only a structural failure aborts the pass: when the folder cannot be
\* listed the pass processes no file and the album job ends with status
\* 'error'; the pass raises for no other reason, and a job whose status is
\* 'error' got there through a call outside the per-file try blocks, never
\* through the failure of a file.
C10_OnlyFolderFailureAbortsPass ==
  /\ (pc = "raised" =>
        ~folder_ok /\ raised_by = "listdir" /\ diag = <<>> /\ disk = before)
  /\ ((jpc = "end" /\ pc # "idle" /\ ~folder_ok) =>
        pc = "raised" /\ status = "error")
  /\ ((jpc = "end" /\ pc = "returned" /\ raised_by = "") =>
        status = "completed")
  /\ (status = "error" => raised_by \in StructuralCalls)

\* C10 witness: a job over a folder that holds a file ended in 'error'
\* because the folder could not be listed
C10_FolderFailureEndsJobInError ==
  /\ jpc = "end"
  /\ pc = "raised"
  /\ status = "error"
  /\ DOMAIN disk # {}

(***************************************************************************)
(* Further claims about the reconciliation pass (checked under Spec)       *)
(***************************************************************************)

\* the name of an audio file without its final ".mp3" or ".flac"
NameWithoutExt(f) == SubSeq(f, 1, Len(f) - 2)

\* the raw title of file f as the pass is to take it: the title tag the file
\* had, or else the file name without its extension
ExpectedRawTitle(f) ==
  IF before[f].tags.title # NoTag
  THEN before[f].tags.title[1]
  ELSE NameWithoutExt(f)

\* C11: every file the pass opened and saved, matched or not, has its
\* album-artist tag equal to the supplied artist name and its title tag equal
\* to cleanTitle(rawTitle), rawTitle being the title tag it had or, if it had
\* none, the file name with the extension stripped.
C11_ArtistAndTitleAlwaysWritten ==
  \A i \in 1..Len(diag) :
    LET f == diag[i].file
    IN  diag[i].note # "error" =>
          /\ disk[f].tags.albumartist = <<AlbumArtist>>
          /\ disk[f].tags.title = <<CleanFile(variant, ExpectedRawTitle(f))>>

\* C11 witness: a file without a title tag for which no number was found was
\* saved with the artist and with the title taken from its name
C11_UnmatchedFileTagged ==
  \E i \in 1..Len(diag) :
    /\ diag[i].note \in {"no match", "fallback"}
    /\ before[diag[i].file].tags.title = NoTag
    /\ before[diag[i].file].tags.albumartist = NoTag
    /\ disk[diag[i].file].tags.albumartist = <<AlbumArtist>>
    /\ disk[diag[i].file].tags.title # NoTag

\* the files the pass has visited, in the order it visited them
Visited == [i \in 1..Len(diag) |-> diag[i].file]

\* C13: the files are processed in lexicographic order of their names,
\* whatever the order in which the directory listing returned them.
C13_FilesProcessedInNameOrder ==
  \A i \in 1..Len(diag) : \A j \in (i + 1)..Len(diag) :
    NameLess(Visited[i], Visited[j])

\* f ends in ".mp3" or ".flac", in any letter case
HasAudioExtension(f) ==
  /\ Len(f) >= 2
  /\ f[Len(f) - 1] = "."
  /\ LowerChunk(f[Len(f)]) \in {"mp3", "flac"}

\* C14: the pass changes tag data only: the folder holds the same file names
\* at every point of the pass as before it, and a file whose extension is
\* neither .mp3 nor .flac is never visited and is left as it was.
C14_OnlyTagsOfAudioFilesChange ==
  /\ DOMAIN disk = DOMAIN before
  /\ \A f \in DOMAIN disk :
       /\ disk[f].fault = before[f].fault
       /\ ~HasAudioExtension(f) =>
            /\ disk[f] = before[f]
            /\ f \notin Range(todo)
            /\ f \notin Range(Visited)

\* C14 witness: the pass returned from a folder that holds the text file and
\* an audio file whose tags it changed
C14_TextFileBesideTaggedFile ==
  /\ pc = "returned"
  /\ F_ntxt \in DOMAIN disk
  /\ disk[F_ntxt] = before[F_ntxt]
  /\ \E f \in DOMAIN disk : disk[f].tags # before[f].tags

\* C15: the index is completely built from the whole authoritative list
\* before the first file is looked up, and it is the same, final index at
\* every point of the file loop: no file is visited while the index is being
\* built, and every number assigned is the one the final index gives.
C15_IndexBuiltBeforeMatching ==
  LET final == IndexOf(variant, tracks, Len(tracks))
      order == OrderOf(variant, tracks, Len(tracks))
  IN  /\ (pc = "build" => diag = <<>> /\ todo = <<>> /\ pos = 0)
      /\ (pc \in {"files", "returned"} =>
            /\ idx = Len(tracks) + 1
            /\ track_order = final
            /\ key_order = order
            /\ \A i \in 1..Len(diag) :
                 diag[i].note # "error" =>
                   diag[i].num =
                     Assigned(variant, diag[i].file, before[diag[i].file].tags,
                              final, order, i))

\* C15 witness: a file was matched against the index of a list of two
\* entries, to the second entry
C15_MatchedAgainstLastEntry ==
  /\ Len(tracks) = 2
  /\ \E i \in 1..Len(diag) : diag[i].note = "matched" /\ diag[i].num = <<2>>

\* C16: each file's track-number tag is written at most once in a pass (the
\* loop visits no file twice), and when the file's cleaned or raw normalized
\* title is a key of the index the number written is the position the index
\* holds for such a key.
C16_NumberWrittenOnceFromIndex ==
  \A i \in 1..Len(diag) :
    LET f == diag[i].file
        keys == {KeyCleaned(f), KeyRaw(f)} \cap DOMAIN track_order
    IN  /\ f \notin Range(todo)
        /\ \A j \in 1..Len(diag) : j # i => diag[j].file # f
        /\ (diag[i].note # "error" /\ keys # {}) =>
             /\ disk[f].tags.tracknumber = diag[i].num
             /\ \E k \in keys : diag[i].num = <<track_order[k]>>

\* C16 witness: a file whose cleaned key and raw key are both in the index,
\* at different positions, got the position of its cleaned key
C16_BothKeysIndexed ==
  \E i \in 1..Len(diag) :
    LET f == diag[i].file
    IN  /\ diag[i].note = "matched"
        /\ KeyCleaned(f) \in DOMAIN track_order
        /\ KeyRaw(f) \in DOMAIN track_order
        /\ track_order[KeyCleaned(f)] # track_order[KeyRaw(f)]
        /\ disk[f].tags.tracknumber = <<track_order[KeyCleaned(f)]>>

\* the positions of the authoritative entries whose cleaned title equals the
\* cleaned title of file f
SameCleanedTitle(f) ==
  {p \in 1..Len(tracks) :
     CleanFile(variant, tracks[p]) = CleanFile(variant, ExpectedRawTitle(f))}

\* C17: a file whose cleaned title equals the cleaned title of exactly one
\* authoritative entry, at position p, gets track number p, also when the
\* authoritative title carries a numeric prefix or a "(feat. ...)" suffix
\* that the file's title lacks, and whatever the file's rank in name order.
C17_UniqueCleanedTitleGetsItsPosition ==
  \A i \in 1..Len(diag) :
    LET f == diag[i].file
    IN  (diag[i].note # "error" /\ Cardinality(SameCleanedTitle(f)) = 1) =>
          \A p \in SameCleanedTitle(f) :
            /\ diag[i].num = <<p>>
            /\ disk[f].tags.tracknumber = <<p>>

(***************************************************************************)
(* Further claims about the album job (checked under SpecJob)              *)
(***************************************************************************)

\* C12: an empty or unavailable authoritative track list is not an error:
\* the index is empty, no file is given a matched track number, the pass
\* does not raise because of it and the job does not end in 'error' because
\* of it, also when get_album failed and the list was replaced by an empty
\* one.
C12_EmptyTrackListIsNotAnError ==
  /\ (fetched = "failed" => tracks = <<>> /\ raised_by # "get_album")
  /\ ((tracks = <<>> /\ pc # "idle") =>
        /\ track_order = <<>>
        /\ \A i \in 1..Len(diag) :
             /\ diag[i].note # "matched"
             /\ (variant = "app_new" => diag[i].num = <<>>)
        /\ (pc = "raised" => ~folder_ok /\ raised_by = "listdir"))
  /\ ((tracks = <<>> /\ status = "error") => raised_by \in StructuralCalls)
  /\ ((tracks = <<>> /\ jpc = "end" /\ raised_by = "") =>
        status = "completed")

\* C12 witness: get_album failed, the pass went over a file of the folder
\* without a match and the job completed
C12_FetchFailedJobCompleted ==
  /\ fetched = "failed"
  /\ jpc = "end"
  /\ status = "completed"
  /\ diag # <<>>
  /\ \A i \in 1..Len(diag) : diag[i].note \in {"no match", "fallback"}

\* a file of the job could not be tagged, or the art not embedded in it
SomeFileFailed ==
  art_errors # {} \/ \E i \in 1..Len(diag) : diag[i].note = "error"

\* C18: a job whose download succeeded ends 'completed' even when tagging
\* or art embedding failed for one or more files: after such a failure the
\* pass does not raise, the status becomes 'error' only through a call
\* outside the per-file try blocks, and a job that ends without such a call
\* having raised ends 'completed'.
C18_FileFailuresDoNotFailTheJob ==
  SomeFileFailed =>
    /\ pc # "raised"
    /\ (status = "error" => raised_by \in StructuralCalls)
    /\ ((jpc = "end" /\ raised_by = "") => status = "completed")

\* C18 witness: a job completed although the art could not be embedded in a
\* file and the same file could not be tagged
C18_CompletedWithFailedFile ==
  /\ jpc = "end"
  /\ status = "completed"
  /\ art_errors # {}
  /\ \E i \in 1..Len(diag) :
       diag[i].note = "error" /\ diag[i].file \in art_errors

(***************************************************************************)
(* Claims about the job-status dictionary (checked under SpecReq)          *)
(***************************************************************************)

\* C19: every read and every write of download_status, by any request
\* handler or job thread, the read that computes a new download id
\* included, happens while the accessing thread holds download_lock.
C19_EveryAccessHoldsTheLock ==
  \A a \in accesses : a.locked

\* the requests whose handler has computed its download id
Accepted == {r \in Requests : download_id[r] # 0}

\* C20: any two accepted download requests, of whatever kind and also when
\* their handlers run concurrently, get distinct download ids, so the record
\* a handler has created stays the record of its own request.
C20_DistinctDownloadIds ==
  /\ \A r1, r2 \in Accepted : r1 # r2 => download_id[r1] # download_id[r2]
  /\ \A r \in Requests :
       hpc[r] \in {"spawn", "done"} =>
         download_status[download_id[r]].type = req_type[r]

\* C22: run_download_with_fallback of app.py tries FLAC first; the MP3
\* command is run if and only if the FLAC command returned a code that is
\* not 0, after it; the result returned is the FLAC result when FLAC
\* succeeded and the MP3 result otherwise, so that the returned code is 0 iff
\* one of the two attempts succeeded.  The function of the same name of
\* app_new.py runs one command, in the requested quality, and returns its
\* result.  In both the job goes on iff the returned code is 0.
C22_FallbackOnlyInApp ==
  attempts # <<>> =>
    /\ IF variant = "app"
       THEN /\ attempts[1].fmt = "flac"
            /\ Len(attempts) = (IF attempts[1].code = 0 THEN 1 ELSE 2)
            /\ (Len(attempts) = 2 => attempts[2].fmt = "mp3")
            /\ (result.code = 0 <=>
                  \E i \in 1..Len(attempts) : attempts[i].code = 0)
       ELSE Len(attempts) = 1 /\ attempts[1].fmt \in Qualities
    /\ result = attempts[Len(attempts)]
    /\ ("download" \in Range(trace) <=> result.code = 0)
    /\ (raised_by = "download" <=> result.code # 0)

\* C22 witness: FLAC failed, MP3 succeeded and the job went on
C22_Mp3AfterFailedFlac ==
  /\ variant = "app"
  /\ Len(attempts) = 2
  /\ attempts[1] = Attempt("flac", 1)
  /\ result = Attempt("mp3", 0)
  /\ "download" \in Range(trace)

\* the four post-processing steps of download_album, in their order
PostProcessing == <<"art", "pass", "beets", "perms">>

\* C26: the status is 'completed' only after the download returned code 0
\* and the album-art step, the pass, the organizer run and the permission
\* normalization have finished, in that order; when the download returns a
\* code that is not 0 none of the four is run and the job ends in 'error'.
C26_CompletedAfterAllStepsInOrder ==
  /\ (status = "completed" =>
        /\ result # <<>> /\ result.code = 0
        /\ trace = <<"download">> \o PostProcessing)
  /\ \E n \in 0..Len(trace) :
       trace = SubSeq(<<"download">> \o PostProcessing, 1, n)
  /\ ((result # <<>> /\ result.code # 0) =>
        /\ trace = <<>>
        /\ pc = "idle" /\ art_errors = {}
        /\ jpc \in {"except", "end"}
        /\ (jpc = "end" => status = "error"))

\* C26 witness: a job completed over a folder that holds a file
C26_CompletedJob ==
  /\ jpc = "end"
  /\ status = "completed"
  /\ DOMAIN disk # {}
  /\ trace = <<"download">> \o PostProcessing

\* C21: a job's status is stable once terminal: after it has become
\* 'completed' or 'error' it never changes again, also for an album request
\* of several entries.
C21_TerminalStatusIsStable ==
  [][(status \in Terminal) => (status' = status)]_vars

\* C27: every accepted download request eventually ends: the job thread
\* terminates and the status is then 'completed' or 'error', whatever was
\* raised inside the thread.
C27_ThreadEndsInTerminalStatus ==
  <>[](wpc = "done" /\ status \in Terminal)

\* C27 witness: the thread of an album request has ended after an exception
\* inside download_album
C27_EndedAfterException ==
  /\ wpc = "done"
  /\ job_kind = "album"
  /\ raised_by # ""
  /\ status = "error"

\* C23: the pass is idempotent over a folder: when it has run a second time
\* with the same list and artist every file's title, album-artist and
\* track-number tags equal what the first run wrote.
C23_SecondRunChangesNothing ==
  (run = 2 /\ pc = "returned") =>
    \A f \in DOMAIN disk : disk[f].tags = first_run[f].tags

\* the keys of the index, in insertion order, that start with p
KeysWithPrefix(p) ==
  LET order == OrderOf(variant, tracks, Len(tracks))
  IN  {i \in 1..Len(order) : StartsWith(order[i], p)}

\* C24: in the last-resort prefix matching, reached only when neither exact
\* key matched, the file gets the position of the first index key, in
\* insertion order, that starts with the normalized first three words of
\* the cleaned title; a title whose first words normalize to the empty
\* string matches no key.
C24_PrefixMatchFirstKeyNoneForEmpty ==
  steps = {"match"} =>
    LET d == IndexOf(variant, tracks, Len(tracks))
        order == OrderOf(variant, tracks, Len(tracks))
        partial == normalize_title(FirstWords(cleaned, PartialWords))
    IN  (/\ normalize_title(cleaned) \notin DOMAIN d
         /\ normalize_title(raw) \notin DOMAIN d) =>
          found[1] = IF partial = <<>> \/ KeysWithPrefix(partial) = {}
                     THEN <<>>
                     ELSE <<d[order[Min(KeysWithPrefix(partial))]]>>

\* the directories the request has removed
Removed == Library \ tree

\* C25: a delete request removes at most the one directory its arguments
\* name, strictly below the library root: the root itself and what lies
\* outside it, the other artists' folders and, for an album delete, the
\* artist's other albums still exist afterwards, for every accepted name.
C25_DeleteStaysBelowRoot ==
  dreq # <<>> =>
    /\ MUSIC_DIR \in tree
    /\ \A p \in Removed : IsPrefix(MUSIC_DIR, p) /\ p # MUSIC_DIR
    /\ \A p, q \in Removed : p[3] = q[3]
    /\ dreq.kind = "album" =>
         \A p, q \in Removed : Len(p) >= 4 /\ p[4] = q[4]

====
